---- MODULE Spec2Model ----
(***************************************************************************)
(* TinPulse: the three maintenance scripts of the repository               *)
(*   update_prices.py      listing fetch + safe_merge into cryptos.csv     *)
(*   fill_exchanges.py     per-coin ticker fetch with exch_cache / defer   *)
(*   update_daily_meta.py  listing fetch + per-coin meta fetch + df.update *)
(* Each script is one process; a behaviour runs one script repeatedly.     *)
(*                                                                         *)
(* Cells of a frame: NA (pandas NaN / None) is <<>>, a value v is <<v>>.   *)
(* A joined string "X|Y" of sorted names is modelled by the set of names,  *)
(* the empty string by the empty set.                                      *)
(***************************************************************************)
EXTENDS Integers, Sequences, FiniteSets, TLC

\* ---------------------------------------------------------------- bounds
MaxRows    == 2   \* rows of the Store file in an initial state
MaxListing == 2   \* records (one per page) the remote listing returns in one run
MAX_COINS  == 1   \* --limit N, the per-run cap
MaxTime    == 36  \* last clock value (hours)
TickHours  == 12  \* one step of the clock (hours)
MaxPage    == 2   \* pages of one coin's ticker list
RetryCap   == 2   \* value at which the listing's 429 counter saturates

\* ------------------------------------------------------ program constants
RANK_CUTOFF     == 1250
MAX_RETRIES     == 3
SKIP_HOURS      == 24
MAX_429_RETRIES == 2
DEFER_HOURS     == 24
CORE_RANK_MAX   == 1250
CORE_VOL_MIN    == 5000000
BackoffBase     == 20
NoRank          == 999999

\* ----------------------------------------------------------------- values
Ids   == {"a", "b", "c"}
Blank == ""
NA    == <<>>

IsNA(v) == v = NA

\* update_prices.fetch_markets, lines 86-88
StatusOf(r) ==
  IF ~IsNA(r) /\ r[1] <= RANK_CUTOFF THEN <<"Ranked">> ELSE <<"Unranked">>

\* LIVE_COLS of update_prices.py; the six numeric columns are written by the
\* same statement and are represented by "rank".
LIVE_COLS == {"rank", "status"}

\* one row of cryptos.csv
Row(i, r, s, e, p, c) ==
  [id |-> i, rank |-> r, status |-> s, exchanges |-> e, ath_price |-> p, chains |-> c]

Range(s) == {s[k] : k \in 1..Len(s)}

IdsOf(rows) == {rows[k].id : k \in 1..Len(rows)}

UniqueIds(rows) == \A i, j \in 1..Len(rows) : rows[i].id = rows[j].id => i = j

\* sequences over S of length lo..hi
SeqsOf(S, lo, hi) == UNION {[1..n -> S] : n \in lo..hi}

\* ------------------------------------------------------------- safe_merge
\* update_prices.strip_blank_ids
strip_blank_ids(rows) == SelectSeq(rows, LAMBDA r : r.id # Blank)

\* pd.concat of market rows onto local: the columns the market frame lacks
\* are NaN in the appended rows
MarketToLocal(m) == Row(m.id, m.rank, m.status, NA, NA, NA)

\* the row of `market` with id i (live_map[i])
LiveRow(market, i) == CHOOSE m \in Range(market) : m.id = i

\* a merge that blanks the live columns of the rows the listing lacks
OverwriteLive_Blanking(r, market) ==
  IF r.id \in IdsOf(market)
  THEN [r EXCEPT !.rank = LiveRow(market, r.id).rank,
                 !.status = LiveRow(market, r.id).status]
  ELSE [r EXCEPT !.rank = NA, !.status = NA]

\* lines 111-115: every live column of a row whose id is in live_map is
\* assigned live_map[cid][col], NaN included
OverwriteLive(r, market) ==
  IF r.id \in IdsOf(market)
  THEN [r EXCEPT !.rank = LiveRow(market, r.id).rank,
                 !.status = LiveRow(market, r.id).status]
  ELSE r

\* a merge that takes every id of the listing for a new one
new_ids_All(market, local) == IdsOf(market)

\* line 120: set(market["id"]) - set(local["id"])
new_ids(market, local) == IdsOf(market) \ IdsOf(local)

\* safe_merge(local, market). local = [has_id, rows]: pd.DataFrame() has
\* no "id" column and strip_blank_ids raises KeyError on it; to_dict("index")
\* raises ValueError when two market rows share an id.
\* Result [ok, rows, kept_cols]; kept_cols is FALSE when local was replaced
\* by market.copy(), which drops every non-live column of the header.
safe_merge(local, market) ==
  IF ~local.has_id THEN [ok |-> FALSE, rows |-> <<>>, kept_cols |-> FALSE]
  ELSE
    LET l1 == strip_blank_ids(local.rows)
        m1 == strip_blank_ids(market)
    IN  IF ~UniqueIds(m1) THEN [ok |-> FALSE, rows |-> <<>>, kept_cols |-> FALSE]
        ELSE
          LET l2 == IF l1 # <<>>
                    THEN [k \in 1..Len(l1) |-> OverwriteLive(l1[k], m1)]
                    ELSE [k \in 1..Len(m1) |-> MarketToLocal(m1[k])]
              new == SelectSeq(m1, LAMBDA m : m.id \in new_ids(m1, l2))
              appended == [k \in 1..Len(new) |-> MarketToLocal(new[k])]
          IN  [ok |-> TRUE, rows |-> l2 \o appended, kept_cols |-> l1 # <<>>]

\* ---------------------------------------------------------- to_csv / read_csv
\* DataFrame.to_csv writes NaN and the empty string as an empty field, and
\* read_csv reads an empty field back as NaN.
\* (exchanges and chains are joined names, ath_price is a number or "")
CsvNames(v) == IF v = <<{}>> THEN NA ELSE v

CsvText(v) == IF v = <<"">> THEN NA ELSE v

CsvRow(r) ==
  Row(r.id, r.rank, r.status, CsvNames(r.exchanges), CsvText(r.ath_price), CsvNames(r.chains))

to_csv(rows, exch_col) == [exists |-> TRUE, exch_col |-> exch_col, rows |-> [k \in 1..Len(rows) |-> CsvRow(rows[k])]]

NoFile == [exists |-> FALSE, exch_col |-> FALSE, rows |-> <<>>]

\* ------------------------------------------------------------------ state
VARIABLES
  script,           \* which script the process runs: "prices", "exch", "meta"
  runs,             \* history: processes started in this period of the clock
  pc,               \* position of the process
  csv,              \* cryptos.csv
  csv0,             \* history: cryptos.csv when the current run started
  files0,           \* history: the three cache files when the current run started
  df,               \* df_local / df, the frame in memory: [has_id, rows]
  rows,             \* fetch_markets: rows collected so far, then the frame returned
  junk,             \* fetch_markets: rows holds entries that are no coin records
  page,             \* fetch_markets / fetch_exchanges: page
  retries,          \* fetch_markets / fetch_exchanges: retries; fetch_meta: tries
  listing_failed,   \* history: a listing request of this run was answered with an error
  now,              \* time.time(), in hours
  exch_cache,       \* fill_exchanges: exch_cache (key -> joined names)
  exch_cache_file,  \* exch_cache.json
  defer,            \* defer (id -> time of the last failure)
  defer_file,       \* exch_defer.json / daily_defer.json
  lu_cache,         \* update_daily_meta: lu_cache (id -> last_updated)
  lu_cache_file,    \* last_updated_cache.json
  todo,             \* fill_exchanges: todo (row indexes); update_daily_meta: candidates
  n,                \* position in todo / candidates of the entity being processed
  names,            \* fetch_exchanges: names
  updates,          \* update_daily_meta: updates
  nreq,             \* history: requests issued by the current detail fetch
  waits,            \* history: back-off sleeps of the current detail fetch
  only429,          \* history: every answer to the current detail fetch was a 429
  ret,              \* history: how the last detail fetch returned
  called,           \* history: the ids the detail fetcher has returned for in this run
  snap,             \* history: the ids the run has fetched data for (the snapshot)
  slept             \* history: the run has slept since it sent its last request

vars == <<script, runs, pc, csv, csv0, files0, df, rows, junk, page, retries, listing_failed, now,
          exch_cache, exch_cache_file, defer, defer_file, lu_cache, lu_cache_file,
          todo, n, names, updates, nreq, waits, only429, ret, called, snap, slept>>

listVars  == <<rows, junk, page, retries, listing_failed>>
cacheVars == <<exch_cache, exch_cache_file, defer, defer_file, lu_cache, lu_cache_file>>
loopVars  == <<todo, n, names, updates>>
histVars  == <<nreq, waits, only429, ret, called, snap, slept>>

Empty == [x \in {} |-> NA]     \* the empty dict

NoRet == [kind |-> "none", cid |-> Blank]

\* ------------------------------------------------------------ initial states
\* Stores: at most MaxRows rows, ids unique and not blank (update_prices writes
\* only rows that passed strip_blank_ids).
StoresOver(RowSet) ==
  {[exists |-> TRUE, exch_col |-> x, rows |-> s] :
     x \in BOOLEAN,
     s \in {t \in SeqsOf(RowSet, 0, MaxRows) : UniqueIds(t)}}

InitCommon ==
  /\ runs = 0
  /\ csv0 = csv
  /\ files0 = <<exch_cache_file, defer_file, lu_cache_file>>
  /\ df = [has_id |-> TRUE, rows |-> <<>>]
  /\ rows = <<>> /\ junk = FALSE /\ page = 1 /\ retries = 0 /\ listing_failed = FALSE
  /\ now = TickHours
  /\ exch_cache = Empty /\ defer = Empty /\ lu_cache = Empty
  /\ todo = <<>> /\ n = 0 /\ names = {} /\ updates = <<>>
  /\ nreq = 0 /\ waits = <<>> /\ only429 = TRUE /\ ret = NoRet /\ snap = {} /\ slept = TRUE /\ called = <<>>

\* ============================================================ update_prices
PriceStoreRows ==
  {Row(i, r, StatusOf(r), e, NA, NA) : i \in Ids, r \in {NA, <<2000>>}, e \in {NA, <<{"X"}>>}}

\* one coin record of /coins/markets as update_prices reads it
PriceListingRows == [id : Ids, rank : {NA, <<1>>}]

InitPrices ==
  /\ script = "prices" /\ pc = "p_idle"
  /\ csv \in {NoFile} \cup
             {s \in StoresOver(PriceStoreRows) :
                s.exch_col = (\E k \in 1..Len(s.rows) : s.rows[k].exchanges # NA)}
  /\ exch_cache_file = Empty /\ defer_file = Empty /\ lu_cache_file = Empty
  /\ InitCommon

\* main, lines 128-129: read the file, enter fetch_markets
P_Start ==
  /\ snap' = {}
  /\ runs = 0
  /\ runs' = runs + 1
  /\ pc = "p_idle"
  /\ df' = IF csv.exists THEN [has_id |-> TRUE, rows |-> csv.rows]
                         ELSE [has_id |-> FALSE, rows |-> <<>>]
  /\ csv0' = csv
  /\ files0' = <<exch_cache_file, defer_file, lu_cache_file>>
  /\ rows' = <<>> /\ junk' = FALSE /\ page' = 1 /\ listing_failed' = FALSE
  /\ pc' = "p_fetch"
  /\ UNCHANGED <<script, csv, retries, now, cacheVars, loopVars, nreq, waits, only429, ret, called>>
  /\ slept' = FALSE

\* an exception leaves main: the process ends, its memory is gone and no
\* file was written
P_Die ==
  /\ pc' = "p_failed"
  /\ df' = [has_id |-> TRUE, rows |-> <<>>]
  /\ rows' = <<>> /\ junk' = FALSE /\ page' = 1
  /\ UNCHANGED <<script, runs, csv, csv0, files0, retries, now, cacheVars, loopVars, nreq, waits, only429, ret, called, snap>>
  /\ slept' = TRUE

\* fetch_markets, lines 33-49: requests.get raises (connection, DNS, timeout)
P_TransportError ==
  /\ pc = "p_fetch"
  /\ listing_failed' = TRUE
  /\ P_Die

\* line 45: r.json() raises on a body that is not JSON (any status)
P_NonJson ==
  /\ pc = "p_fetch"
  /\ listing_failed' = TRUE
  /\ P_Die

\* lines 45-49: a non-empty list of coin records (the code never reads its
\* length: a page of the model holds one record)
P_Chunk ==
  /\ pc = "p_fetch"
  /\ Len(rows) < MaxListing
  /\ \E c \in PriceListingRows : rows' = Append(rows, c)
  /\ page' = page + 1
  /\ UNCHANGED <<script, runs, pc, csv, csv0, files0, df, junk, retries, listing_failed, now,
                 cacheVars, loopVars, nreq, waits, only429, ret, called, snap>>
  /\ slept' = FALSE

\* lines 45-49: the status is never read; a non-empty body that is no list of
\* records (the error object of a 429 or 5xx answer) is truthy, rows.extend
\* adds its keys and the loop goes on to the next page
P_ErrorObject ==
  /\ pc = "p_fetch"
  /\ ~junk
  /\ junk' = TRUE
  /\ page' = page + 1
  /\ listing_failed' = TRUE
  /\ UNCHANGED <<script, runs, pc, csv, csv0, files0, df, rows, retries, now,
                 cacheVars, loopVars, nreq, waits, only429, ret, called, snap>>
  /\ slept' = FALSE

\* lines 51-89: json_normalize, column selection, status tag
Normalize(rs) ==
  [k \in 1..Len(rs) |-> [id |-> rs[k].id, rank |-> rs[k].rank, status |-> StatusOf(rs[k].rank)]]

\* the record json_normalize makes of an entry that is no dict: every column NaN
JunkRow == [id |-> Blank, rank |-> NA]

\* the frame fetch_markets returns once the loop has ended
MarketFrame == Normalize(IF junk THEN rows \o <<JunkRow>> ELSE rows)

\* lines 46-47: an empty body ([], {} or null) of any status ends the loop;
\* lines 51-89 build the frame; main, lines 130-132: safe_merge, then the
\* file is rewritten
P_EmptyBody_Write ==
  /\ pc = "p_fetch"
  /\ rows # <<>>
  /\ \E status \in {200, 429, 500} :
       listing_failed' = (listing_failed \/ status # 200)
  /\ LET m == safe_merge(df, MarketFrame) IN
       /\ m.ok
       /\ df' = [has_id |-> TRUE, rows |-> m.rows]
       /\ csv' = to_csv(m.rows, csv.exch_col /\ m.kept_cols)
  /\ rows' = MarketFrame
  /\ snap' = IdsOf(strip_blank_ids(MarketFrame))
  /\ pc' = "p_done"
  /\ UNCHANGED <<script, runs, csv0, files0, junk, page, retries, now, cacheVars, loopVars, nreq, waits, only429, ret, called>>
  /\ UNCHANGED slept

\* the loop has ended and one of the following raises, so nothing is written:
\* lines 51-61 (KeyError when no record was collected; with entries that are
\* no dicts json_normalize raises or yields an all-NaN record, depending on
\* the pandas release), safe_merge
P_EmptyBody_Raise ==
  /\ pc = "p_fetch"
  /\ \/ rows = <<>>
     \/ junk
     \/ ~safe_merge(df, MarketFrame).ok
  /\ \E status \in {200, 429, 500} :
       listing_failed' = (listing_failed \/ status # 200)
  /\ P_Die

NextPrices ==
  \/ P_Start \/ P_TransportError \/ P_NonJson \/ P_Chunk \/ P_ErrorObject
  \/ P_EmptyBody_Write \/ P_EmptyBody_Raise

SpecPrices == InitPrices /\ [][NextPrices]_vars

\* ============================================================ fill_exchanges
\* the coins the detail scripts are run on
DetailIds == {"a", "b"}

\* hashlib.sha256(cid.encode()).hexdigest(): a key of its own name space, one
\* per id
Key(cid) == <<"sha256", cid>>

\* "|".join(sorted(names)) is modelled by the set names; "" is {}
ExchNames == {"X"}

\* lines 86: isna() | (str.strip() == "")
IsBlankNames(v) == v = NA \/ v = <<{}>>

Min(x, y) == IF x <= y THEN x ELSE y

\* a cap that keeps the last k
Take_Last(s, k) == SubSeq(s, Len(s) - Min(k, Len(s)) + 1, Len(s))

\* lst[:k]
Take(s, k) == SubSeq(s, 1, Min(k, Len(s)))

\* lines 86-87: the indexes of the rows with a blank exchanges cell, capped
Todo(rs) ==
  Take(SelectSeq([k \in 1..Len(rs) |-> k], LAMBDA k : IsBlankNames(rs[k].exchanges)),
       MAX_COINS)

\* line 86: read_csv gives a column with no value at all the dtype float64,
\* and .str raises AttributeError on it
StrAccessorRaises(c) ==
  /\ c.exch_col
  /\ c.rows # <<>>
  /\ \A k \in 1..Len(c.rows) : c.rows[k].exchanges = NA

\* a window that still blocks at the hour it ends
DeferBlocks_Closed(cid, hours) ==
  /\ cid \in DOMAIN defer
  /\ defer[cid] # 0
  /\ defer[cid] + hours >= now

\* fetch_exchanges line 31, fetch_meta line 85:
\* (ts := defer.get(cid)) and ts + HOURS*3600 > time.time()
DeferBlocks(cid, hours) ==
  /\ cid \in DOMAIN defer
  /\ defer[cid] # 0
  /\ defer[cid] + hours > now

\* d[k] = v
Put(d, k, v) == [x \in DOMAIN d \cup {k} |-> IF x = k THEN v ELSE d[x]]

\* the id of the entity being processed (line 95)
E_cid == df.rows[todo[n]].id

ExchStoreRows ==
  {Row(i, <<2000>>, StatusOf(<<2000>>), e, NA, NA) : i \in DetailIds, e \in {NA, <<{"X"}>>}}

\* exch_cache.json may hold values of earlier runs over another cryptos.csv
InitExchCaches == {Empty} \cup {Put(Empty, Key(i), {"Y"}) : i \in DetailIds}

InitExch ==
  /\ script = "exch" /\ pc = "e_idle"
  /\ csv \in {NoFile} \cup
             {s \in StoresOver(ExchStoreRows) :
                (\E k \in 1..Len(s.rows) : s.rows[k].exchanges # NA) => s.exch_col}
  /\ exch_cache_file \in InitExchCaches
  /\ defer_file = Empty /\ lu_cache_file = Empty
  /\ InitCommon

\* the process has ended: what it held in memory is gone
ExitMem ==
  /\ df' = [has_id |-> TRUE, rows |-> <<>>]
  /\ rows' = <<>> /\ junk' = FALSE /\ page' = 1 /\ retries' = 0
  /\ exch_cache' = Empty /\ defer' = Empty /\ lu_cache' = Empty
  /\ todo' = <<>> /\ n' = 0 /\ names' = {} /\ updates' = <<>>
  /\ nreq' = 0 /\ waits' = <<>> /\ only429' = TRUE /\ ret' = NoRet /\ called' = <<>>
  /\ slept' = TRUE

E_Idle == pc \in {"e_idle", "e_done", "e_failed"}

\* main, lines 79-80: sys.exit("cryptos.csv not found")
E_NoCsv ==
  /\ runs = 0
  /\ runs' = runs + 1
  /\ E_Idle
  /\ ~csv.exists
  /\ pc' = "e_failed"
  /\ csv0' = csv
  /\ files0' = <<exch_cache_file, defer_file, lu_cache_file>>
  /\ UNCHANGED <<script, csv, df, listVars, now, cacheVars, loopVars, histVars>>

\* main, line 86 raises
E_StartRaise ==
  /\ runs = 0
  /\ runs' = runs + 1
  /\ E_Idle
  /\ csv.exists /\ StrAccessorRaises(csv)
  /\ pc' = "e_failed"
  /\ csv0' = csv
  /\ files0' = <<exch_cache_file, defer_file, lu_cache_file>>
  /\ UNCHANGED <<script, csv, df, listVars, now, cacheVars, loopVars, histVars>>

\* lines 21-22 (the caches are loaded), main, lines 82-90: "Nothing to update."
E_StartNothing ==
  /\ runs = 0
  /\ runs' = runs + 1
  /\ E_Idle
  /\ csv.exists /\ ~StrAccessorRaises(csv)
  /\ Todo(csv.rows) = <<>>
  /\ pc' = "e_done"
  /\ csv0' = csv
  /\ files0' = <<exch_cache_file, defer_file, lu_cache_file>>
  /\ UNCHANGED <<script, csv, df, listVars, now, cacheVars, loopVars, histVars>>

\* lines 21-22, main, lines 82-93
E_Start ==
  /\ snap' = {}
  /\ runs = 0
  /\ runs' = runs + 1
  /\ E_Idle
  /\ csv.exists /\ ~StrAccessorRaises(csv)
  /\ Todo(csv.rows) # <<>>
  /\ exch_cache' = exch_cache_file
  /\ defer' = defer_file
  /\ df' = [has_id |-> TRUE, rows |-> csv.rows]
  /\ todo' = Todo(csv.rows)
  /\ n' = 1
  /\ pc' = "e_loop"
  /\ csv0' = csv
  /\ files0' = <<exch_cache_file, defer_file, lu_cache_file>>
  /\ UNCHANGED <<script, csv, listVars, now, exch_cache_file, defer_file,
                 lu_cache, lu_cache_file, names, updates, nreq, waits, only429, ret>>
  /\ called' = <<>>
  /\ slept' = TRUE

\* fetch_exchanges returns ex to main, lines 96-102, and the loop goes on;
\* after the last coin main goes to line 104
E_Return(ex, kind) ==
  /\ df' = IF ex # {} THEN [df EXCEPT !.rows[todo[n]].exchanges = <<ex>>] ELSE df
  /\ ret' = [kind |-> kind, cid |-> E_cid]
  /\ called' = Append(called, E_cid)
  /\ snap' = IF ex # {} THEN snap \cup {E_cid} ELSE snap
  /\ IF n < Len(todo) THEN n' = n + 1 /\ pc' = "e_loop"
                      ELSE n' = n /\ pc' = "e_write"
  /\ slept' = TRUE

\* fetch_exchanges, lines 28-30: the cache holds the key
E_CacheHit ==
  /\ pc = "e_loop"
  /\ Key(E_cid) \in DOMAIN exch_cache
  /\ E_Return(exch_cache[Key(E_cid)], "cached")
  /\ UNCHANGED <<script, runs, csv, csv0, files0, listVars, now, cacheVars, todo, names, updates,
                 nreq, waits, only429>>

\* line 31-32: deferred less than SKIP_HOURS ago
E_Deferred ==
  /\ pc = "e_loop"
  /\ Key(E_cid) \notin DOMAIN exch_cache
  /\ DeferBlocks(E_cid, SKIP_HOURS)
  /\ E_Return({}, "deferred")
  /\ UNCHANGED <<script, runs, csv, csv0, files0, listVars, now, cacheVars, todo, names, updates,
                 nreq, waits, only429>>

\* a fetcher that does not look into exch_cache before it sends a request
E_Request_NoCacheCheck ==
  /\ pc = "e_loop"
  /\ ~DeferBlocks(E_cid, SKIP_HOURS)
  /\ retries' = 0 /\ names' = {} /\ page' = 1
  /\ nreq' = 1 /\ waits' = <<>> /\ only429' = TRUE
  /\ pc' = "e_req"
  /\ UNCHANGED <<script, runs, csv, csv0, files0, df, rows, junk, listing_failed, now, cacheVars,
                 todo, n, updates, ret, called, snap>>
  /\ slept' = FALSE

\* lines 34-43: the first request of the fetch is sent
E_Request ==
  /\ pc = "e_loop"
  /\ Key(E_cid) \notin DOMAIN exch_cache
  /\ ~DeferBlocks(E_cid, SKIP_HOURS)
  /\ retries' = 0 /\ names' = {} /\ page' = 1
  /\ nreq' = 1 /\ waits' = <<>> /\ only429' = TRUE
  /\ pc' = "e_req"
  /\ UNCHANGED <<script, runs, csv, csv0, files0, df, rows, junk, listing_failed, now, cacheVars,
                 todo, n, updates, ret, called, snap>>
  /\ slept' = FALSE

\* lines 44-48: requests.get raises RequestException
E_NetErr ==
  /\ pc = "e_req"
  /\ defer' = Put(defer, E_cid, now)
  /\ only429' = FALSE
  /\ E_Return({}, "neterr")
  /\ UNCHANGED <<script, runs, csv, csv0, files0, listVars, now, exch_cache, exch_cache_file,
                 defer_file, lu_cache, lu_cache_file, todo, names, updates, nreq, waits>>

\* a fetcher that allows one attempt more
E_429_Retry_OneMore ==
  /\ pc = "e_req"
  /\ retries <= MAX_RETRIES
  /\ retries' = retries + 1
  /\ waits' = Append(waits, BackoffBase * (retries + 1))
  /\ nreq' = nreq + 1
  /\ UNCHANGED <<script, runs, pc, csv, csv0, files0, df, rows, junk, page, listing_failed, now,
                 cacheVars, loopVars, only429, ret, called, snap>>
  /\ slept' = FALSE

\* lines 50-58: 429, another attempt after 20 * retries seconds
E_429_Retry ==
  /\ pc = "e_req"
  /\ retries + 1 <= MAX_RETRIES
  /\ retries' = retries + 1
  /\ waits' = Append(waits, BackoffBase * (retries + 1))
  /\ nreq' = nreq + 1
  /\ UNCHANGED <<script, runs, pc, csv, csv0, files0, df, rows, junk, page, listing_failed, now,
                 cacheVars, loopVars, only429, ret, called, snap>>
  /\ slept' = FALSE

\* lines 50-54: 429 once more than MAX_RETRIES times
E_429_Defer ==
  /\ pc = "e_req"
  /\ retries + 1 > MAX_RETRIES
  /\ retries' = retries + 1
  /\ defer' = Put(defer, E_cid, now)
  /\ E_Return({}, "exhausted")
  /\ UNCHANGED <<script, runs, csv, csv0, files0, rows, junk, page, listing_failed, now, exch_cache,
                 exch_cache_file, defer_file, lu_cache, lu_cache_file, todo, names,
                 updates, nreq, waits, only429>>

\* lines 60-62: a status other than 200 and 429
E_Http ==
  /\ pc = "e_req"
  /\ only429' = FALSE
  /\ E_Return({}, "http")
  /\ UNCHANGED <<script, runs, csv, csv0, files0, listVars, now, cacheVars, todo, names, updates,
                 nreq, waits>>

\* line 64: status 200 and r.json() raises, or the body is no object: the
\* exception leaves main
E_BadBody ==
  /\ pc = "e_req"
  /\ pc' = "e_failed"
  /\ ExitMem
  /\ snap' = {}
  /\ UNCHANGED <<script, runs, csv, csv0, files0, listing_failed, now, exch_cache_file, defer_file,
                 lu_cache_file>>

\* lines 64-71: a full page of 100 tickers, the next page is requested
E_PageMore ==
  /\ pc = "e_req"
  /\ page < MaxPage
  /\ \E data \in SUBSET ExchNames : names' = names \cup data
  /\ page' = page + 1
  /\ nreq' = nreq + 1
  /\ only429' = FALSE
  /\ UNCHANGED <<script, runs, pc, csv, csv0, files0, df, rows, junk, retries, listing_failed, now,
                 cacheVars, todo, n, updates, waits, ret, called, snap>>
  /\ slept' = FALSE

\* lines 64-76: fewer than 100 tickers end the loop; a non-empty result is
\* cached
E_PageLast ==
  /\ pc = "e_req"
  /\ \E data \in SUBSET ExchNames :
       LET exch_str == names \cup data IN
         /\ names' = exch_str
         /\ exch_cache' = IF exch_str # {} THEN Put(exch_cache, Key(E_cid), exch_str)
                                           ELSE exch_cache
         /\ E_Return(exch_str, IF exch_str # {} THEN "ok" ELSE "empty")
  /\ only429' = FALSE
  /\ UNCHANGED <<script, runs, csv, csv0, files0, listVars, now, exch_cache_file, defer, defer_file,
                 lu_cache, lu_cache_file, todo, updates, nreq, waits>>

\* main, line 104: cryptos.csv is rewritten
E_Write ==
  /\ pc = "e_write"
  /\ csv' = to_csv(df.rows, TRUE)
  /\ pc' = "e_wcache"
  /\ UNCHANGED <<script, runs, csv0, files0, df, listVars, now, cacheVars, loopVars, histVars>>

\* main, line 105: exch_cache.json is rewritten
E_WriteCache ==
  /\ pc = "e_wcache"
  /\ exch_cache_file' = exch_cache
  /\ pc' = "e_wdefer"
  /\ UNCHANGED <<script, runs, csv, csv0, files0, df, listVars, now, exch_cache, defer,
                 defer_file, lu_cache, lu_cache_file, loopVars, histVars>>

\* main, lines 106-107: exch_defer.json is rewritten, the process ends
E_WriteDefer ==
  /\ pc = "e_wdefer"
  /\ defer_file' = defer
  /\ pc' = "e_done"
  /\ ExitMem
  /\ UNCHANGED <<script, runs, csv, csv0, files0, listing_failed, now, exch_cache_file,
                 lu_cache_file, snap>>

\* the clock; a run is short against the hours the defer windows are
\* counted in, so the clock moves between two runs, and the scheduler starts
\* one run in a period of the clock
Tick ==
  /\ pc \in {"e_idle", "e_done", "e_failed", "m_idle", "m_done", "m_failed"}
  /\ now + TickHours <= MaxTime
  /\ now' = now + TickHours
  /\ runs' = 0
  /\ UNCHANGED <<script, pc, csv, csv0, files0, df, listVars, cacheVars, loopVars, histVars>>

NextExch ==
  \/ E_NoCsv \/ E_StartRaise \/ E_StartNothing \/ E_Start
  \/ E_CacheHit \/ E_Deferred \/ E_Request
  \/ E_NetErr \/ E_429_Retry \/ E_429_Defer \/ E_Http \/ E_BadBody
  \/ E_PageMore \/ E_PageLast \/ E_Write \/ E_WriteCache \/ E_WriteDefer \/ Tick

SpecExch == InitExch /\ [][NextExch]_vars

\* ========================================================= update_daily_meta
\* TARGET_COLS: ath_price stands for the columns read with deep_get, chains
\* for the columns built with "|".join
MetaStoreRows ==
  {Row(i, <<2000>>, StatusOf(<<2000>>), NA, <<"9">>, <<{"sol"}>>) : i \in DetailIds}

\* one coin record of /coins/markets as update_daily_meta reads it
MetaListingRows ==
  {[id |-> i, rank |-> rv[1], vol |-> rv[2], lu |-> t] :
     i \in DetailIds, rv \in {<<<<1>>, NA>>, <<NA, NA>>, <<NA, <<CORE_VOL_MIN>>>>}, t \in {1, 2}}

\* fetch_markets, lines 76-78: dicts keep the place of the first record of an
\* id and the values of the last one
FirstAt(rs, k) == \A j \in 1..(k - 1) : rs[j].id # rs[k].id

LastOf(rs, i) == rs[CHOOSE k \in 1..Len(rs) : rs[k].id = i /\ \A j \in (k + 1)..Len(rs) : rs[j].id # i]

rank_map(rs, i) == IF LastOf(rs, i).rank = NA THEN NoRank ELSE LastOf(rs, i).rank[1]

vol_map(rs, i) == IF LastOf(rs, i).vol = NA THEN 0 ELSE LastOf(rs, i).vol[1]

ts_map(rs, i) == LastOf(rs, i).lu

\* line 81-82
is_core(rs, i) == rank_map(rs, i) <= CORE_RANK_MAX \/ vol_map(rs, i) >= CORE_VOL_MIN

\* a comparison that takes every marker for a new one
MarkerDiffers_Any(i, t) == TRUE

\* lu_cache.get(cid) != ts
MarkerDiffers(i, t) == i \notin DOMAIN lu_cache \/ lu_cache[i] # t

\* main, lines 150-153
Candidates(rs) ==
  LET at == SelectSeq([k \in 1..Len(rs) |-> k],
                      LAMBDA k : /\ FirstAt(rs, k)
                                 /\ is_core(rs, rs[k].id)
                                 /\ MarkerDiffers(rs[k].id, ts_map(rs, rs[k].id)))
  IN  Take([j \in 1..Len(at) |-> [cid |-> rs[at[j]].id, ts |-> ts_map(rs, rs[at[j]].id)]],
           MAX_COINS)

\* what fetch_meta returns for a parsed answer (lines 112-131)
Metas(i) == {[id |-> i, ath_price |-> v[1], chains |-> v[2]] :
               v \in {<<<<"5">>, <<{"eth"}>>>>, <<<<"">>, <<{"eth"}>>>>, <<NA, <<{}>>>>}}

\* DataFrame.update: a cell of other that is not NaN replaces the cell
UpdateCell(old, new) == IF new = NA THEN old ELSE new

\* the record of `ups` with id i
MetaOf(ups, i) == CHOOSE u \in Range(ups) : u.id = i

\* main, lines 170-173
df_update(rs, ups) ==
  [j \in 1..Len(rs) |->
    IF rs[j].id \in {ups[k].id : k \in 1..Len(ups)}
    THEN [rs[j] EXCEPT !.ath_price = UpdateCell(rs[j].ath_price, MetaOf(ups, rs[j].id).ath_price),
                       !.chains = UpdateCell(rs[j].chains, MetaOf(ups, rs[j].id).chains)]
    ELSE rs[j]]

M_cid == todo[n].cid

InitMeta ==
  /\ script = "meta" /\ pc = "m_idle"
  /\ csv \in {NoFile} \cup {s \in StoresOver(MetaStoreRows) : ~s.exch_col}
  /\ exch_cache_file = Empty /\ defer_file = Empty /\ lu_cache_file = Empty
  /\ InitCommon

M_Idle == pc \in {"m_idle", "m_done", "m_failed"}

\* an exception leaves main: the process ends and no file was written
M_Die ==
  /\ pc' = "m_failed"
  /\ ExitMem
  /\ snap' = {}
  /\ UNCHANGED <<script, runs, csv, csv0, files0, now, exch_cache_file, defer_file, lu_cache_file>>

\* main, lines 135-136: sys.exit
M_NoCsv ==
  /\ runs = 0
  /\ runs' = runs + 1
  /\ M_Idle
  /\ ~csv.exists
  /\ pc' = "m_failed"
  /\ csv0' = csv
  /\ files0' = <<exch_cache_file, defer_file, lu_cache_file>>
  /\ UNCHANGED <<script, csv, df, listVars, now, cacheVars, loopVars, histVars>>

\* lines 44-45 (the caches are loaded), main, lines 137-148: fetch_markets
\* sends its first request
M_Start ==
  /\ snap' = {}
  /\ runs = 0
  /\ runs' = runs + 1
  /\ M_Idle
  /\ csv.exists
  /\ lu_cache' = lu_cache_file
  /\ defer' = defer_file
  /\ df' = [has_id |-> TRUE, rows |-> csv.rows]
  /\ rows' = <<>> /\ junk' = FALSE /\ page' = 1 /\ retries' = 0
  /\ listing_failed' = FALSE
  /\ pc' = "m_list"
  /\ csv0' = csv
  /\ files0' = <<exch_cache_file, defer_file, lu_cache_file>>
  /\ UNCHANGED <<script, csv, now, exch_cache, exch_cache_file, defer_file,
                 lu_cache_file, loopVars, nreq, waits, only429, ret>>
  /\ called' = <<>>
  /\ slept' = FALSE

\* fetch_markets, lines 60-64: requests.get raises
M_ListNetErr ==
  /\ pc = "m_list"
  /\ listing_failed' = TRUE
  /\ M_Die

\* lines 65-68: 429, the same page is asked for again after 20 * retries
\* seconds; nothing bounds retries (the model stops counting at RetryCap)
M_List429 ==
  /\ pc = "m_list"
  /\ retries' = Min(retries + 1, RetryCap)
  /\ pc' = "m_backoff"
  /\ UNCHANGED <<script, runs, csv, csv0, files0, df, rows, junk, page, listing_failed, now,
                 cacheVars, loopVars, nreq, waits, only429, ret, called, snap>>
  /\ slept' = TRUE

\* line 68: the sleep is over, continue
M_ListWake ==
  /\ pc = "m_backoff"
  /\ pc' = "m_list"
  /\ UNCHANGED <<script, runs, csv, csv0, files0, df, listVars, now, cacheVars, loopVars, nreq, waits, only429, ret, called, snap>>
  /\ slept' = FALSE

\* lines 69-70: RuntimeError
M_ListHttp ==
  /\ pc = "m_list"
  /\ listing_failed' = TRUE
  /\ M_Die

\* line 71: r.json() raises
M_ListNonJson ==
  /\ pc = "m_list"
  /\ listing_failed' = TRUE
  /\ M_Die

\* lines 71-74: a non-empty list of coin records (one record in the model;
\* a record of an id already listed would only replace the values the dicts
\* of lines 76-78 keep for it, so each id is listed once)
M_ListChunk ==
  /\ pc = "m_list"
  /\ Len(rows) < MaxListing
  /\ \E c \in MetaListingRows :
       /\ c.id \notin IdsOf(rows)
       /\ rows' = Append(rows, c)
  /\ page' = page + 1
  /\ retries' = 0
  /\ UNCHANGED <<script, runs, pc, csv, csv0, files0, df, junk, listing_failed, now,
                 cacheVars, loopVars, nreq, waits, only429, ret, called, snap>>
  /\ slept' = FALSE

\* lines 71-74: status 200 and a non-empty body that is no list of records:
\* rows.extend takes it and the loop goes on
M_ListErrorObject ==
  /\ pc = "m_list"
  /\ ~junk
  /\ junk' = TRUE
  /\ page' = page + 1
  /\ retries' = 0
  /\ listing_failed' = TRUE
  /\ UNCHANGED <<script, runs, pc, csv, csv0, files0, df, rows, now, cacheVars, loopVars, nreq, waits, only429, ret, called, snap>>
  /\ slept' = FALSE

\* line 72 ends the loop, lines 76-78 raise TypeError on an entry that is no
\* record
M_ListEndRaise ==
  /\ pc = "m_list"
  /\ junk
  /\ UNCHANGED listing_failed
  /\ M_Die

\* line 72 ends the loop; main, lines 150-156: "nothing to update", return
M_ListEndNothing ==
  /\ pc = "m_list"
  /\ ~junk
  /\ Candidates(rows) = <<>>
  /\ pc' = "m_done"
  /\ ExitMem
  /\ snap' = {}
  /\ UNCHANGED <<script, runs, csv, csv0, files0, listing_failed, now, exch_cache_file, defer_file,
                 lu_cache_file>>

\* line 72 ends the loop; main, lines 150-160
M_ListEnd ==
  /\ pc = "m_list"
  /\ ~junk
  /\ Candidates(rows) # <<>>
  /\ todo' = Candidates(rows)
  /\ n' = 1
  /\ updates' = <<>>
  /\ rows' = <<>>
  /\ pc' = "m_loop"
  /\ UNCHANGED <<script, runs, csv, csv0, files0, df, junk, page, retries, listing_failed, now,
                 cacheVars, names, histVars>>

\* fetch_meta returns meta to main, lines 162-167
M_Return(meta, kind) ==
  /\ updates' = IF meta # <<>> THEN Append(updates, meta[1]) ELSE updates
  /\ lu_cache' = IF meta # <<>> THEN Put(lu_cache, M_cid, todo[n].ts) ELSE lu_cache
  /\ ret' = [kind |-> kind, cid |-> M_cid]
  /\ called' = Append(called, M_cid)
  /\ snap' = IF meta # <<>> THEN snap \cup {M_cid} ELSE snap
  /\ IF n < Len(todo) THEN n' = n + 1 /\ pc' = "m_loop"
                      ELSE n' = n /\ pc' = "m_write"
  /\ slept' = TRUE

\* fetch_meta, lines 85-86
M_Deferred ==
  /\ pc = "m_loop"
  /\ DeferBlocks(M_cid, DEFER_HOURS)
  /\ M_Return(<<>>, "deferred")
  /\ UNCHANGED <<script, runs, csv, csv0, files0, df, listVars, now, exch_cache, exch_cache_file,
                 defer, defer_file, lu_cache_file, todo, names, nreq, waits, only429>>

\* lines 87-95: the first request of the fetch is sent
M_Request ==
  /\ pc = "m_loop"
  /\ ~DeferBlocks(M_cid, DEFER_HOURS)
  /\ retries' = 0
  /\ nreq' = 1 /\ waits' = <<>> /\ only429' = TRUE
  /\ pc' = "m_req"
  /\ UNCHANGED <<script, runs, csv, csv0, files0, df, rows, junk, page, listing_failed, now,
                 cacheVars, loopVars, ret, called, snap>>
  /\ slept' = FALSE

\* lines 89-95: requests.get raises; nothing catches it
M_NetErr ==
  /\ pc = "m_req"
  /\ UNCHANGED listing_failed
  /\ M_Die

\* lines 96-102
M_429_Retry ==
  /\ pc = "m_req"
  /\ retries + 1 <= MAX_429_RETRIES
  /\ retries' = retries + 1
  /\ waits' = Append(waits, BackoffBase * (retries + 1))
  /\ nreq' = nreq + 1
  /\ UNCHANGED <<script, runs, pc, csv, csv0, files0, df, rows, junk, page, listing_failed, now,
                 cacheVars, loopVars, only429, ret, called, snap>>
  /\ slept' = FALSE

\* lines 96-99
M_429_Defer ==
  /\ pc = "m_req"
  /\ retries + 1 > MAX_429_RETRIES
  /\ retries' = retries + 1
  /\ defer' = Put(defer, M_cid, now)
  /\ M_Return(<<>>, "exhausted")
  /\ UNCHANGED <<script, runs, csv, csv0, files0, df, rows, junk, page, listing_failed, now,
                 exch_cache, exch_cache_file, defer_file, lu_cache_file, todo, names,
                 nreq, waits, only429>>

\* lines 103-105: a status other than 200 and 429 is deferred
M_Http ==
  /\ pc = "m_req"
  /\ defer' = Put(defer, M_cid, now)
  /\ only429' = FALSE
  /\ M_Return(<<>>, "http")
  /\ UNCHANGED <<script, runs, csv, csv0, files0, df, listVars, now, exch_cache, exch_cache_file,
                 defer_file, lu_cache_file, todo, names, nreq, waits>>

\* lines 106-110: a body that is not JSON is deferred
M_NonJson ==
  /\ pc = "m_req"
  /\ defer' = Put(defer, M_cid, now)
  /\ only429' = FALSE
  /\ M_Return(<<>>, "nonjson")
  /\ UNCHANGED <<script, runs, csv, csv0, files0, df, listVars, now, exch_cache, exch_cache_file,
                 defer_file, lu_cache_file, todo, names, nreq, waits>>

\* lines 112-131 raise on JSON of another shape (a null where an object or a
\* string is read): the exception leaves main
M_ParseRaise ==
  /\ pc = "m_req"
  /\ UNCHANGED listing_failed
  /\ M_Die

\* lines 112-131: the answer is parsed
M_Ok ==
  /\ pc = "m_req"
  /\ \E meta \in Metas(M_cid) : M_Return(<<meta>>, "ok")
  /\ only429' = FALSE
  /\ UNCHANGED <<script, runs, csv, csv0, files0, df, listVars, now, exch_cache, exch_cache_file,
                 defer, defer_file, lu_cache_file, todo, names, nreq, waits>>

\* main, lines 169-177: cryptos.csv is rewritten when there are updates
M_Write ==
  /\ pc = "m_write"
  /\ csv' = IF updates # <<>> THEN to_csv(df_update(df.rows, updates), csv.exch_col)
                              ELSE csv
  /\ pc' = "m_wlu"
  /\ UNCHANGED <<script, runs, csv0, files0, df, listVars, now, cacheVars, loopVars, histVars>>

\* main, line 179: last_updated_cache.json is rewritten
M_WriteLu ==
  /\ pc = "m_wlu"
  /\ lu_cache_file' = lu_cache
  /\ pc' = "m_wdefer"
  /\ UNCHANGED <<script, runs, csv, csv0, files0, df, listVars, now, exch_cache,
                 exch_cache_file, defer, defer_file, lu_cache, loopVars, histVars>>

\* main, lines 180-181: daily_defer.json is rewritten, the process ends
M_WriteDefer ==
  /\ pc = "m_wdefer"
  /\ defer_file' = defer
  /\ pc' = "m_done"
  /\ ExitMem
  /\ UNCHANGED <<script, runs, csv, csv0, files0, listing_failed, now, exch_cache_file,
                 lu_cache_file, snap>>

\* the positions of a running process
Alive(p) ==
  p \in {"p_fetch", "e_loop", "e_req", "e_write", "e_wcache", "e_wdefer",
         "m_list", "m_backoff", "m_loop", "m_req", "m_write", "m_wlu", "m_wdefer"}

\* the process is killed from outside (signal, power, job timeout) at any
\* point of a run: its memory is gone, the files are as written so far
Kill ==
  /\ Alive(pc)
  /\ pc' = (IF script = "prices" THEN "p_failed"
            ELSE IF script = "exch" THEN "e_failed" ELSE "m_failed")
  /\ ExitMem
  /\ UNCHANGED <<script, runs, csv, csv0, files0, listing_failed, now, exch_cache_file,
                 defer_file, lu_cache_file, snap>>

NextMeta ==
  \/ M_NoCsv \/ M_Start
  \/ M_ListNetErr \/ M_List429 \/ M_ListWake \/ M_ListHttp \/ M_ListNonJson
  \/ M_ListChunk \/ M_ListErrorObject \/ M_ListEndRaise \/ M_ListEndNothing \/ M_ListEnd
  \/ M_Deferred \/ M_Request
  \/ M_NetErr \/ M_429_Retry \/ M_429_Defer \/ M_Http \/ M_NonJson \/ M_ParseRaise \/ M_Ok
  \/ M_Write \/ M_WriteLu \/ M_WriteDefer \/ Tick

SpecMeta == InitMeta /\ [][NextMeta]_vars

\* ================================================================ the system
Init == InitPrices \/ InitExch \/ InitMeta

Next ==
  \/ P_Start \/ P_TransportError \/ P_NonJson \/ P_Chunk \/ P_ErrorObject
  \/ P_EmptyBody_Write \/ P_EmptyBody_Raise
  \/ E_NoCsv \/ E_StartRaise \/ E_StartNothing \/ E_Start
  \/ E_CacheHit \/ E_Deferred \/ E_Request
  \/ E_NetErr \/ E_429_Retry \/ E_429_Defer \/ E_Http \/ E_BadBody
  \/ E_PageMore \/ E_PageLast \/ E_Write \/ E_WriteCache \/ E_WriteDefer
  \/ M_NoCsv \/ M_Start
  \/ M_ListNetErr \/ M_List429 \/ M_ListWake \/ M_ListHttp \/ M_ListNonJson
  \/ M_ListChunk \/ M_ListErrorObject \/ M_ListEndRaise \/ M_ListEndNothing \/ M_ListEnd
  \/ M_Deferred \/ M_Request
  \/ M_NetErr \/ M_429_Retry \/ M_429_Defer \/ M_Http \/ M_NonJson \/ M_ParseRaise \/ M_Ok
  \/ M_Write \/ M_WriteLu \/ M_WriteDefer \/ Tick \/ Kill

Spec == Init /\ [][Next]_vars

\* ==================================================================== claims
RowWithId(rs, i) == CHOOSE r \in Range(rs) : r.id = i

RunEnded == pc \in {"p_done", "e_done", "m_done"}

\* C1 (never-delete). Whatever a run of one of the three scripts does and
\* however it ends, every id that was in cryptos.csv when the run started is
\* still in it, and the row of an id the run fetched no data for has all its
\* cells unchanged.
C1_NeverDelete ==
  /\ csv0.exists => csv.exists
  /\ \A k \in 1..Len(csv0.rows) :
       \E j \in 1..Len(csv.rows) :
         /\ csv.rows[j].id = csv0.rows[k].id
         /\ csv0.rows[k].id \notin snap => csv.rows[j] = csv0.rows[k]

\* a run has rewritten the file and a row of an id outside the snapshot was in it
C1_Witness ==
  /\ RunEnded
  /\ csv # csv0
  /\ \E k \in 1..Len(csv0.rows) : csv0.rows[k].id \notin snap

\* C2 (upsert) as claimed: after safe_merge a row whose id is in the snapshot
\* has, in each live column, the snapshot's value when the snapshot supplies
\* one and the value it had before when the snapshot's cell is null; the
\* other columns are as before.
C2_UpsertAsClaimed ==
  pc = "p_done" =>
    \A k \in 1..Len(csv0.rows) :
      LET r0 == csv0.rows[k] IN
        r0.id \in snap =>
          LET m  == LiveRow(strip_blank_ids(rows), r0.id)
              r1 == RowWithId(csv.rows, r0.id)
          IN  /\ r1.rank = (IF m.rank # NA THEN m.rank ELSE r0.rank)
              /\ r1.status = (IF m.status # NA THEN m.status ELSE r0.status)
              /\ r1.exchanges = r0.exchanges
              /\ r1.ath_price = r0.ath_price
              /\ r1.chains = r0.chains

\* the Store `after` is `before` followed by one row for each id of `market`
\* that `before` lacks, carrying the market's values
AppendShape(before, market, after) ==
  /\ IdsOf(after) = IdsOf(before) \cup IdsOf(market)
  /\ Len(after) = Len(before) + Cardinality(IdsOf(market) \ IdsOf(before))
  /\ \A k \in 1..Len(before) : after[k].id = before[k].id
  /\ \A k \in (Len(before) + 1)..Len(after) :
       /\ after[k].rank = LiveRow(market, after[k].id).rank
       /\ after[k].status = LiveRow(market, after[k].id).status

\* C3 (append) as claimed: when the listing was fetched without an error and
\* gave at least one record and no id twice, safe_merge returns and the Store
\* written is the rows it had, in their order, followed by one row per new
\* id; also when cryptos.csv is empty or does not exist.
C3_AppendAsClaimed ==
  [][(pc = "p_fetch" /\ pc' # "p_fetch" /\ ~listing_failed' /\ rows # <<>> /\ UniqueIds(rows))
       => (pc' = "p_done" /\ csv'.exists /\ AppendShape(csv.rows, Normalize(rows), csv'.rows))]_vars

\* the same with cryptos.csv present: holds
C3_AppendWhenFilePresent ==
  [][(pc = "p_fetch" /\ pc' # "p_fetch" /\ ~listing_failed' /\ rows # <<>> /\ UniqueIds(rows)
        /\ csv.exists)
       => (pc' = "p_done" /\ csv'.exists /\ AppendShape(csv.rows, Normalize(rows), csv'.rows))]_vars

\* the process of the detail script is running
DetailAlive(p) == Alive(p) /\ p # "p_fetch"

\* every entry of d is in e with the same value
Keeps(d, e) == \A k \in DOMAIN d : k \in DOMAIN e /\ e[k] = d[k]

\* C4 (cache permanence). Once exch_cache holds a non-empty value for an id,
\* a call of fetch_exchanges for that id returns the cached value and sends
\* no request, in the run that cached it and in every run that loads the
\* file; and no step changes or removes an entry, of the file or of the
\* dict of a running process, whatever the provider answers.
C4_CachePermanence ==
  [][/\ Keeps(exch_cache_file, exch_cache_file')
     /\ DetailAlive(pc') /\ DetailAlive(pc) => Keeps(exch_cache, exch_cache')
     /\ (script = "exch" /\ ~DetailAlive(pc) /\ DetailAlive(pc')) => exch_cache' = exch_cache_file
     /\ (pc = "e_loop" /\ Key(E_cid) \in DOMAIN exch_cache /\ exch_cache[Key(E_cid)] # {}
           /\ DetailAlive(pc'))
          => /\ pc' # "e_req" /\ nreq' = nreq
             /\ ret' = [kind |-> "cached", cid |-> E_cid]
             /\ df'.rows[todo[n]].exchanges = <<exch_cache[Key(E_cid)]>>
     /\ pc' = "e_req" => Key(E_cid') \notin DOMAIN exch_cache']_vars

\* a run has filled a row from the value an earlier run left in the file,
\* without a request
C4_Witness ==
  /\ pc = "e_write" /\ ret.kind = "cached" /\ nreq = 0
  /\ Key(ret.cid) \in DOMAIN exch_cache_file
  /\ exch_cache_file[Key(ret.cid)] # {}
  /\ \E k \in 1..Len(df.rows) :
       df.rows[k].id = ret.cid /\ df.rows[k].exchanges = <<exch_cache_file[Key(ret.cid)]>>

\* the id, the window and the request state of the detail fetch at hand
D_cid == IF script = "exch" THEN E_cid ELSE M_cid
D_hours == IF script = "exch" THEN SKIP_HOURS ELSE DEFER_HOURS
D_loop == IF script = "exch" THEN "e_loop" ELSE "m_loop"
D_req == IF script = "exch" THEN "e_req" ELSE "m_req"

\* every id of d is in e with a time that is not older
KeepsNewer(d, e) == \A c \in DOMAIN d : c \in DOMAIN e /\ e[c] >= d[c]

\* C5 (defer respects window). An id recorded in the defer cache at time T:
\* the record stays (or is replaced by a newer one) in the file and in the
\* dict of the running process, every run loads the file, and fetch_exchanges
\* / fetch_meta send no request for the id while now < T + window, and are
\* not held back by the entry when now >= T + window.
C5_DeferRespectsWindow ==
  [][/\ KeepsNewer(defer_file, defer_file')
     /\ DetailAlive(pc') /\ DetailAlive(pc) => KeepsNewer(defer, defer')
     /\ (script # "prices" /\ ~DetailAlive(pc) /\ DetailAlive(pc')) => defer' = defer_file
     /\ (pc = D_loop /\ D_cid \in DOMAIN defer /\ now < defer[D_cid] + D_hours
           /\ DetailAlive(pc'))
          => (pc' # D_req /\ nreq' = nreq /\ ret'.kind \in {"cached", "deferred"})
     /\ (pc = D_loop /\ D_cid \in DOMAIN defer /\ now >= defer[D_cid] + D_hours
           /\ DetailAlive(pc'))
          => (pc' = D_req \/ ret'.kind = "cached")]_vars

\* a later run, inside the window, has skipped an id deferred by an earlier run
C5_Witness ==
  /\ script # "prices"
  /\ ret.kind = "deferred" /\ DetailAlive(pc)
  /\ ret.cid \in DOMAIN defer_file
  /\ defer_file[ret.cid] < now /\ now < defer_file[ret.cid] + D_hours

\* the bound of the script at hand
D_max == IF script = "exch" THEN MAX_RETRIES ELSE MAX_429_RETRIES

Backoffs(k) == [i \in 1..k |-> BackoffBase * i]

\* C6 (bounded detail retries). A detail fetch that has got 429 to every
\* request has sent at most max_retries + 1 requests and has slept
\* backoff_base * k before the k-th retry; when it returns it has sent
\* max_retries + 1 requests and slept max_retries times, the id is in the
\* defer cache with the current time and the result is empty.
C6_BoundedDetailRetries ==
  [][/\ (pc' = D_req /\ only429')
          => /\ nreq' <= D_max + 1
             /\ waits' = Backoffs(nreq' - 1)
     /\ (pc = D_req /\ pc' \in {"e_loop", "e_write", "m_loop", "m_write"} /\ only429')
          => /\ nreq' = D_max + 1
             /\ waits' = Backoffs(D_max)
             /\ D_cid \in DOMAIN defer' /\ defer'[D_cid] = now
             /\ ret' = [kind |-> "exhausted", cid |-> D_cid]
             /\ df' = df /\ updates' = updates /\ snap' = snap]_vars

\* a fetch has been deferred after max_retries sleeps
C6_Witness ==
  /\ script # "prices" /\ DetailAlive(pc) /\ pc # D_req
  /\ ret.kind = "exhausted" /\ only429
  /\ nreq = D_max + 1 /\ Len(waits) = D_max
  /\ ret.cid \in DOMAIN defer /\ defer[ret.cid] = now

\* the scheduler runs the process whenever it can take a step; the provider
\* is free in what it answers
FairSpec == Init /\ [][Next]_vars /\ WF_vars(Next)

ListingInProgress == pc \in {"p_fetch", "m_list", "m_backoff"}

\* C7 (bounded listing retries) as claimed: fetch_markets ends, with the
\* listing or with a failure, whatever the provider answers, a provider that
\* answers 429 to every request included.
C7_ListingTerminates == ListingInProgress ~> ~ListingInProgress

\* C8 (listing is all-or-nothing) as claimed: a run in which a page request
\* of the listing was answered with an error never rewrites cryptos.csv.
C8_NoPartialListingWritten == [][listing_failed' => csv' = csv]_vars

\* C9 (hard errors are not deferred) as claimed: when a detail request is
\* answered with a status other than 200 and 429, or with a body that cannot
\* be parsed, the fetch returns no data, the defer cache is as before and
\* the run goes on.
C9_HardErrorsNotDeferred ==
  [][(E_Http \/ E_BadBody \/ M_Http \/ M_NonJson)
       => /\ defer' = defer
          /\ pc' \in {"e_loop", "e_write", "m_loop", "m_write"}
          /\ df' = df /\ updates' = updates]_vars

\* C10 (transport errors are deferred and not fatal) as claimed: when a
\* detail request fails with a transport error the fetch sends no further
\* request for the id, the id is in the defer cache with the current time,
\* the result is empty and the run goes on to the next entity or to the
\* writes.
C10_TransportErrorsDeferred ==
  [][(E_NetErr \/ M_NetErr)
       => /\ pc' \in {"e_loop", "e_write", "m_loop", "m_write"}
          /\ D_cid \in DOMAIN defer' /\ defer'[D_cid] = now
          /\ nreq' = nreq
          /\ df' = df /\ updates' = updates]_vars

\* the value deep_get gives for a field the response lacks
Absent(v) == v = <<"">>

\* C11 (a missing field never blanks a column) as claimed: when
\* update_daily_meta writes cryptos.csv, the ath_price of a row whose detail
\* response lacks the field (deep_get gave "") or has null for it is the value
\* the row had before the run, and the ath_price of a row whose response
\* supplies a value is that value.
C11_MissingFieldKeepsValue ==
  [][(pc = "m_write" /\ pc' = "m_wlu")
       => \A k \in 1..Len(updates) : \A j \in 1..Len(csv.rows) :
            csv.rows[j].id = updates[k].id
              => csv'.rows[j].ath_price =
                   (IF Absent(updates[k].ath_price) \/ updates[k].ath_price = NA
                    THEN csv.rows[j].ath_price
                    ELSE updates[k].ath_price)]_vars

\* cryptos.csv and the three cache files: now, when the run started, and as
\* the run at hand leaves them when it goes on to its end
FilesNow == <<csv, exch_cache_file, defer_file, lu_cache_file>>

FilesAtStart == <<csv0, files0[1], files0[2], files0[3]>>

FilesWhenCompleted ==
  IF script = "exch" THEN <<to_csv(df.rows, TRUE), exch_cache, defer, lu_cache_file>>
  ELSE IF script = "meta"
  THEN <<IF updates # <<>> THEN to_csv(df_update(df.rows, updates), csv.exch_col) ELSE csv,
         exch_cache_file, defer, lu_cache>>
  ELSE FilesAtStart

\* C12 (a run is atomic-or-absent) as claimed: at whatever point the process
\* is killed, the Store and the cache files are all as they were when the run
\* started or all as the completed run writes them.
C12_AtomicOrAbsent ==
  [][Kill => (FilesNow = FilesAtStart \/ FilesNow = FilesWhenCompleted)]_vars

\* C13 (inter-request pacing) as claimed: the run has slept between any two
\* requests that follow one another. The steps that ask for the next page or
\* retry after a 429 sleep before they send (fetch_markets, fetch_exchanges,
\* fetch_meta); what is left to check is the first request of a detail fetch.
C13_SleepBetweenRequests == [][(E_Request \/ M_Request) => slept]_vars

\* C14 (idempotence of the Reconciler). When update_prices has merged the
\* listing into the Store, safe_merge of the merged frame with the same
\* listing returns, and returns the same rows in the same order with the same
\* values.
C14_MergeIdempotent ==
  pc = "p_done" => (safe_merge(df, rows).ok /\ safe_merge(df, rows).rows = df.rows)

\* a merge that has overwritten a row of the Store and appended another
C14_Witness ==
  /\ pc = "p_done"
  /\ Len(df.rows) > Len(csv0.rows)
  /\ \E k \in 1..Len(csv0.rows) : df.rows[k] # csv0.rows[k]

\* t picks, in increasing order, the first min(MAX_COINS, n) of the n
\* positions of the set C
IsCappedPrefix(t, C) ==
  /\ Len(t) = Min(MAX_COINS, Cardinality(C))
  /\ \A i \in 1..Len(t) : t[i] \in C
  /\ \A i \in 1..(Len(t) - 1) : t[i] < t[i + 1]
  /\ \A i \in 1..Len(t) : \A k \in C : k <= t[i] => \E j \in 1..i : t[j] = k

\* the place of id c in the listing
ListedAt(rs, c) == CHOOSE k \in 1..Len(rs) : rs[k].id = c

\* the ids of the work list, in its order
WorkIds ==
  IF script = "exch" THEN [i \in 1..Len(todo) |-> df.rows[todo[i]].id]
  ELSE [i \in 1..Len(todo) |-> todo[i].cid]

Rerun ==
  /\ pc \in {"e_done", "e_failed"}
  /\ runs # 0
  /\ runs' = 0
  /\ UNCHANGED <<script, pc, csv, csv0, files0, df, listVars, now, cacheVars, loopVars, histVars>>

\* fill_exchanges run again and again to its end, with a provider that
\* answers every request with status 200 and a ticker list
BackfillNext ==
  \/ E_StartRaise \/ E_StartNothing \/ E_Start
  \/ E_CacheHit \/ E_Request \/ E_PageMore \/ E_PageLast
  \/ E_Write \/ E_WriteCache \/ E_WriteDefer
  \/ Tick \/ Rerun

BackfillSpec == InitExch /\ [][BackfillNext]_vars /\ WF_vars(BackfillNext)

BlankRows(rs) == {k \in 1..Len(rs) : IsBlankNames(rs[k].exchanges)}

\* C16 (backfill progress) as claimed: with more rows with an empty
\* exchanges cell than the cap, every id of such a row is attempted by
\* fetch_exchanges in some run.
C16_EveryBlankRowAttempted ==
  \A i \in DetailIds :
    (/\ pc = "e_idle" /\ csv.exists
     /\ Cardinality(BlankRows(csv.rows)) > MAX_COINS
     /\ \E k \in BlankRows(csv.rows) : csv.rows[k].id = i)
      ~> (\E j \in 1..Len(called) : called[j] = i)

\* C17 (empty-success asymmetry): a fetch_exchanges call whose pages all
\* answered 200 with no ticker returns the empty result and changes neither
\* exch_cache nor defer; and the files a completed run leaves after such a
\* call make the next run attempt the same id over the network: line 86
\* evaluates, the id is in the next work list, not cached and not deferred.
C17_EmptyNotCachedRetriedNextRun ==
  [][/\ (pc = "e_req" /\ called' # called /\ ret'.kind = "empty")
          => (exch_cache' = exch_cache /\ defer' = defer /\ df' = df)
     /\ (pc = "e_wdefer" /\ pc' = "e_done" /\ ret.kind = "empty")
          => /\ Key(ret.cid) \notin DOMAIN exch_cache_file'
             /\ ret.cid \notin DOMAIN defer_file'
             /\ ~StrAccessorRaises(csv')
             /\ \E j \in 1..Len(Todo(csv'.rows)) : csv'.rows[Todo(csv'.rows)[j]].id = ret.cid]_vars

\* C18 (detail selection in update_daily_meta): every candidate the listing
\* phase selects is core by the listing's rank and volume and has a
\* last_updated marker that differs from the one lu_cache.json holds; a
\* request is sent for a selected candidate only; and a completed run leaves
\* in lu_cache.json, for every id whose fetch succeeded, the marker it saw,
\* so that a following run with the same marker does not select the id.
C18_DetailSelection ==
  [][/\ (pc = "m_list" /\ pc' = "m_loop")
          => \A j \in 1..Len(todo') :
               /\ \E k \in 1..Len(rows) : rows[k].id = todo'[j].cid
               /\ is_core(rows, todo'[j].cid)
               /\ todo'[j].ts = ts_map(rows, todo'[j].cid)
               /\ \/ todo'[j].cid \notin DOMAIN lu_cache_file
                  \/ lu_cache_file[todo'[j].cid] # todo'[j].ts
     /\ (pc = "m_loop" /\ pc' = "m_req")
          => /\ n \in 1..Len(todo)
             /\ todo' = todo /\ n' = n
             /\ todo[n].cid \notin DOMAIN files0[3] \/ files0[3][todo[n].cid] # todo[n].ts
     /\ (pc = "m_wdefer" /\ pc' = "m_done")
          => \A j \in 1..Len(todo) :
               (\E k \in 1..Len(updates) : updates[k].id = todo[j].cid)
                 => /\ todo[j].cid \in DOMAIN lu_cache_file'
                    /\ lu_cache_file'[todo[j].cid] = todo[j].ts]_vars

\* a later run requests an id whose stored marker is not the one the listing shows
C18_Witness ==
  /\ pc = "m_req"
  /\ M_cid \in DOMAIN lu_cache_file
  /\ lu_cache_file[M_cid] # todo[n].ts

\* C19 (id uniqueness preserved by the merge): for a Store with unique ids
\* and any listing fetch_markets has collected, the same id on two pages
\* included, safe_merge returns a Store and no two of its rows share an id.
C19_MergeKeepsIdsUnique ==
  (pc = "p_fetch" /\ df.has_id /\ UniqueIds(df.rows) /\ rows # <<>> /\ ~junk)
    => LET m == safe_merge(df, MarketFrame)
       IN  m.ok /\ UniqueIds(m.rows)

\* C20 (revision marker only for merged data): when a run of
\* update_daily_meta completes, every id whose marker the run wrote into
\* lu_cache.json has a row in cryptos.csv, and the row carries the values its
\* detail fetch returned.
C20_MarkerOnlyForStoredValues ==
  [][(pc = "m_wdefer" /\ pc' = "m_done")
       => \A k \in 1..Len(updates) :
            (/\ updates[k].id \in DOMAIN lu_cache_file'
             /\ \/ updates[k].id \notin DOMAIN files0[3]
                \/ files0[3][updates[k].id] # lu_cache_file'[updates[k].id])
              => \E j \in 1..Len(csv'.rows) :
                   /\ csv'.rows[j].id = updates[k].id
                   /\ updates[k].ath_price # NA
                        => csv'.rows[j].ath_price = CsvText(updates[k].ath_price)
                   /\ updates[k].chains # NA
                        => csv'.rows[j].chains = CsvNames(updates[k].chains)]_vars

====
